---- MODULE Spec2Model ----
(***************************************************************************)
(* Model of the Omnii RDF reasoning service (apps/python-rdf/app/main.py): *)
(* the process-wide base graph, the Redis-backed query result cache, and   *)
(* the handlers execute_sparql_query, import_rdf_data and evolve_concept.   *)
(*                                                                         *)
(* Every handler is an `async def` without an await inside it, so on the   *)
(* event loop each call runs to completion: one action per call.  The      *)
(* last part of the module takes the handlers apart into their statements   *)
(* and lets the event loop schedule several calls in flight.                *)
(***************************************************************************)
EXTENDS Integers, Sequences, FiniteSets, TLC

VARIABLES
    graph,          \* RDFServiceManager.graph: the base graph, a set of triples
    redis_client,   \* RDFServiceManager.redis_client: TRUE when a client object exists
    cache,          \* the Redis keyspace "rdf:query:*": key -> [value, ttl, stored_at]
    now,            \* wall-clock seconds (drives Redis key expiry)
    next_bnode,     \* number of blank nodes minted so far by BNode()
    calls,          \* number of handler calls made so far
    last,           \* the call that has just completed: its request, response, cache use
    loop            \* the event loop's tasks, in arrival order: request, position, locals

vars == <<graph, redis_client, cache, now, next_bnode, calls, last, loop>>

----------------------------------------------------------------------------
(* Bounds of the model                                                      *)

MaxCalls == 3
MaxTime == 1800
MaxBNodes == 1
MaxInFlight == 3

TickStep == 900

----------------------------------------------------------------------------
(* Optional values (Python None / a value)                                  *)

None == << >>
Some(x) == << x >>
IsNone(o) == o = << >>
Get(o) == o[1]

Min(a, b) == IF a <= b THEN a ELSE b
Max(a, b) == IF a >= b THEN a ELSE b

----------------------------------------------------------------------------
(* Terms and triples.  A term is its string form; a triple is <<s, p, o>>.  *)

T(s, p, o) == <<s, p, o>>

RDF_type == "rdf:type"
RDFS_label == "rdfs:label"
RDFS_subClassOf == "rdfs:subClassOf"
RDFS_domain == "rdfs:domain"
RDFS_range == "rdfs:range"
RDFS_Class == "rdfs:Class"
OWL_Class == "owl:Class"
OWL_ObjectProperty == "owl:ObjectProperty"
OWL_DatatypeProperty == "owl:DatatypeProperty"
OMNII_Concept == "omnii:Concept"
OMNII_hasConfidence == "omnii:hasConfidence"
OMNII_hasEvidence == "omnii:hasEvidence"

\* Names BNode() hands out, in order.
BNodeNames == <<"_:b1", "_:b2", "_:b3", "_:b4">>
BNodes == {BNodeNames[i] : i \in 1..Len(BNodeNames)}

\* Literal terms that occur in the modelled requests.
Literals == {"\"n1\"", "\"note\"", "\"0.9\"", "\"\"", "\"0\"^^xsd:integer"}

\* The term kinds the result shaping of execute_sparql_query distinguishes.
TermType(t) ==
    IF t \in Literals THEN "literal"
    ELSE IF t \in BNodes THEN "blank"
    ELSE "uri"

\* The baseline schema: the triples setup_ontology adds.
OntologyTriples ==
    { T("omnii:Conversation", RDF_type, OWL_Class),
      T(OMNII_Concept, RDF_type, OWL_Class),
      T("omnii:Tag", RDF_type, OWL_Class),
      T("omnii:User", RDF_type, OWL_Class),
      T("omnii:Memory", RDF_type, OWL_Class),
      T("omnii:BrainContext", RDF_type, OWL_Class),
      T("omnii:mentions", RDF_type, OWL_ObjectProperty),
      T("omnii:relatesToConcept", RDF_type, OWL_ObjectProperty),
      T("omnii:hasTag", RDF_type, OWL_ObjectProperty),
      T(OMNII_hasConfidence, RDF_type, OWL_DatatypeProperty),
      T("omnii:hasTimestamp", RDF_type, OWL_DatatypeProperty),
      T("omnii:hasActivationStrength", RDF_type, OWL_DatatypeProperty),
      T("omnii:hasMemoryStrength", RDF_type, OWL_DatatypeProperty),
      T("temporal:previousWeek", RDF_type, OWL_DatatypeProperty),
      T("temporal:currentWeek", RDF_type, OWL_DatatypeProperty),
      T("temporal:nextWeek", RDF_type, OWL_DatatypeProperty),
      T("temporal:recentModification", RDF_type, OWL_DatatypeProperty) }

\* setup_ontology: add the baseline schema to the graph it is called on.
setup_ontology(g) == g \cup OntologyTriples

----------------------------------------------------------------------------
(* RDF documents.  A Turtle document is the sequence of its statements;     *)
(* a statement is a triple, or Malformed where the text does not parse.     *)

Malformed == <<"!", "!", "!">>

DocSub == << T("ex:Sub", RDFS_subClassOf, OMNII_Concept),
             T("ex:c2", RDF_type, "ex:Sub") >>
DocInvalid == << Malformed >>
DocPartial == << T("ex:c3", RDF_type, OMNII_Concept), Malformed >>

Documents == {DocSub, DocInvalid, DocPartial}

\* Graph.parse(data=doc): the parser adds each statement to the graph as it
\* reads it and raises at the first statement that does not parse; what was
\* added before the error stays in the graph.
\* (variant: each statement read replaces the graph's content instead of
\* being added to it)
RECURSIVE GraphParse_replacing(_, _)
GraphParse_replacing(g, doc) ==
    IF doc = << >> THEN [ok |-> TRUE, graph |-> g]
    ELSE IF Head(doc) = Malformed THEN [ok |-> FALSE, graph |-> g]
    ELSE GraphParse_replacing({Head(doc)}, Tail(doc))

RECURSIVE GraphParse(_, _)
GraphParse(g, doc) ==
    IF doc = << >> THEN [ok |-> TRUE, graph |-> g]
    ELSE IF Head(doc) = Malformed THEN [ok |-> FALSE, graph |-> g]
    ELSE GraphParse(g \cup {Head(doc)}, Tail(doc))

----------------------------------------------------------------------------
(* The reasoner: owlrl.DeductiveClosure(OWLRL_Semantics, rdfs_closure=True, *)
(* axiomatic_triples=True).expand(graph).  expand adds the axiomatic        *)
(* triples, then applies the rules to the accumulating triple set until a  *)
(* pass adds nothing.  The rule catalogue here is the class/property        *)
(* fragment the modelled data exercises.                                    *)

AxiomaticTriples ==
    { T(RDFS_subClassOf, RDFS_domain, RDFS_Class),
      T(RDFS_subClassOf, RDFS_range, RDFS_Class) }

\* One pass of the rules: the triples they license on g.
WithPredicate(g, p) == { t \in g : t[2] = p }

RuleConsequences(g) ==
    \* cax-sco: x type c1, c1 subClassOf c2 => x type c2
    { T(ab[1][1], RDF_type, ab[2][3]) :
        ab \in { q \in WithPredicate(g, RDF_type) \X WithPredicate(g, RDFS_subClassOf) :
                    q[1][3] = q[2][1] } }
    \cup
    \* scm-sco: c1 subClassOf c2, c2 subClassOf c3 => c1 subClassOf c3
    { T(ab[1][1], RDFS_subClassOf, ab[2][3]) :
        ab \in { q \in WithPredicate(g, RDFS_subClassOf) \X WithPredicate(g, RDFS_subClassOf) :
                    q[1][3] = q[2][1] } }
    \cup
    \* prp-dom: p domain c, x p y => x type c
    UNION { { T(b[1], RDF_type, a[3]) : b \in WithPredicate(g, a[1]) } :
            a \in WithPredicate(g, RDFS_domain) }
    \cup
    \* prp-rng: p range c, x p y => y type c (y a resource)
    UNION { { T(b[3], RDF_type, a[3]) :
                b \in { t \in WithPredicate(g, a[1]) : t[3] \notin Literals } } :
            a \in WithPredicate(g, RDFS_range) }

\* (variant: the rules are applied in one pass, not to saturation)
Closure_single_pass(g) == g \cup RuleConsequences(g)

RECURSIVE Closure(_)
Closure(g) ==
    LET new == RuleConsequences(g) \ g
    IN  IF new = {} THEN g ELSE Closure(g \cup new)

\* DeductiveClosure(...).expand(g): the graph g is extended in place.
DeductiveClosure_expand(g) == Closure(g \cup AxiomaticTriples)

\* The copy loop of apply_reasoning: every triple of the base graph is added
\* to a fresh Graph().
CopyGraph(g) == {} \cup {t \in g : TRUE}

\* (variant: the closure is computed on self.graph itself, without a copy)
apply_reasoning_in_place(self_graph) ==
    [ self_graph |-> DeductiveClosure_expand(self_graph),
      reasoning_graph |-> DeductiveClosure_expand(self_graph) ]

\* (variant: the copy loop is missing, the closure starts from an empty graph)
apply_reasoning_no_copy(self_graph) ==
    [ self_graph |-> self_graph,
      reasoning_graph |-> DeductiveClosure_expand({}) ]

\* apply_reasoning: expand a copy.  Returns both graphs the method leaves
\* behind: self.graph and the reasoning_graph it returns.
apply_reasoning(self_graph) ==
    [ self_graph |-> self_graph,
      reasoning_graph |-> DeductiveClosure_expand(CopyGraph(self_graph)) ]

----------------------------------------------------------------------------
(* Query text.  A query string is the sequence of its tokens; a token is    *)
(* <<kind, a, b, c>>: a keyword, a projected variable, or a triple pattern. *)
(* Variables are written by their name (str(var)), without the '?'.        *)

VarNames == {"concept", "x", "current_week_strength",
             "previous_week_strength", "next_week_strength"}

Kw(w) == <<"kw", w, "", "">>
Var(v) == <<"var", v, "", "">>
TP(s, p, o) == <<"tp", s, p, o>>

SELECT == Kw("SELECT")
WHERE_OPEN == Kw("WHERE {")
OPTIONAL_OPEN == Kw("OPTIONAL {")
CLOSE == Kw("}")

\* SELECT ?concept WHERE { ?concept a omnii:Concept . }
QConcept == << SELECT, Var("concept"), WHERE_OPEN,
               TP("concept", RDF_type, OMNII_Concept), CLOSE >>
\* SELECT ?x WHERE { ?x a owl:ObjectProperty . }
QProperty == << SELECT, Var("x"), WHERE_OPEN,
                TP("x", RDF_type, OWL_ObjectProperty), CLOSE >>
\* INVALID SPARQL SYNTAX
QInvalid == << Kw("INVALID"), Kw("SPARQL"), Kw("SYNTAX") >>

\* SELECT ?concept ?x WHERE { ?concept a omnii:Concept .
\*   OPTIONAL { ?concept ex:note ?x . } }
QOptional == << SELECT, Var("concept"), Var("x"), WHERE_OPEN,
                TP("concept", RDF_type, OMNII_Concept),
                OPTIONAL_OPEN, TP("concept", "ex:note", "x"), CLOSE, CLOSE >>

\* SELECT ?concept where { ?concept a omnii:Concept . }
QLower == << SELECT, Var("concept"), Kw("where {"),
             TP("concept", RDF_type, OMNII_Concept), CLOSE >>
\* SELECT ?concept WHERE { ?concept a omnii:Concept .
\*   { SELECT ?x WHERE { ?x a owl:ObjectProperty . } } }
QNested == << SELECT, Var("concept"), WHERE_OPEN,
              TP("concept", RDF_type, OMNII_Concept),
              Kw("{"), SELECT, Var("x"), WHERE_OPEN,
              TP("x", RDF_type, OWL_ObjectProperty), CLOSE, CLOSE, CLOSE >>
\* WHERE { }
QBare == << WHERE_OPEN, CLOSE >>

\* (variant: str.replace(old, new, 1), only the first occurrence is replaced)
RECURSIVE Replace_first(_, _, _)
Replace_first(text, old, new) ==
    IF text = << >> THEN << >>
    ELSE IF Head(text) = old THEN new \o Tail(text)
    ELSE << Head(text) >> \o Replace_first(Tail(text), old, new)

\* str.replace(old, new) on token sequences: every occurrence of the token
\* old is replaced by the tokens new.
RECURSIVE Replace(_, _, _)
Replace(text, old, new) ==
    IF text = << >> THEN << >>
    ELSE IF Head(text) = old THEN new \o Replace(Tail(text), old, new)
    ELSE << Head(text) >> \o Replace(Tail(text), old, new)

temporal_filter ==
    << OPTIONAL_OPEN,
       TP("concept", "temporal:currentWeek", "current_week_strength"),
       TP("concept", "temporal:previousWeek", "previous_week_strength"),
       TP("concept", "temporal:nextWeek", "next_week_strength"),
       CLOSE >>

\* The text the method builds for the user scope (lines 271-275).
user_filter(brain_context) ==
    << Kw("FILTER EXISTS {"),
       TP("concept", "omnii:belongsToUser", "\"" \o brain_context.user_id \o "\""),
       CLOSE >>

\* (variant: a missing context is not returned early but read as a context
\* with the default temporal_reasoning = True)
enhance_query_defaulting_context(original_query, brain_context) ==
    IF IsNone(brain_context) \/ Get(brain_context).temporal_reasoning
    THEN Replace(original_query, WHERE_OPEN, <<WHERE_OPEN>> \o temporal_filter)
    ELSE original_query

\* enhance_query_with_brain_context.  user_filter is built by the method
\* but never put into the text it returns.
enhance_query_with_brain_context(original_query, brain_context) ==
    IF IsNone(brain_context) THEN original_query
    ELSE IF Get(brain_context).temporal_reasoning
         THEN Replace(original_query, WHERE_OPEN, <<WHERE_OPEN>> \o temporal_filter)
         ELSE original_query

----------------------------------------------------------------------------
(* prepareQuery: parse the token sequence into projected variables and the  *)
(* elements of the group graph pattern (triple patterns and OPTIONAL        *)
(* blocks); raises on anything else.                                        *)

IndexOf(text, tok) ==
    IF \E i \in 1..Len(text) : text[i] = tok
    THEN CHOOSE i \in 1..Len(text) :
            text[i] = tok /\ \A j \in 1..(i - 1) : text[j] # tok
    ELSE 0

\* The elements of a group body: [ok, elems], an element being
\* [optional |-> BOOLEAN, tps |-> sequence of triple patterns].
RECURSIVE ParseGroup(_)
ParseGroup(body) ==
    IF body = << >> THEN [ok |-> TRUE, elems |-> << >>]
    ELSE IF Head(body)[1] = "tp" THEN
        LET rest == ParseGroup(Tail(body))
        IN  [ok |-> rest.ok,
             elems |-> << [optional |-> FALSE, tps |-> << Head(body) >>] >> \o rest.elems]
    ELSE IF Head(body) = OPTIONAL_OPEN THEN
        LET close == IndexOf(body, CLOSE)
            inner == SubSeq(body, 2, close - 1)
        IN  IF close = 0 \/ inner = << >>
               \/ \E i \in 1..Len(inner) : inner[i][1] # "tp"
            THEN [ok |-> FALSE, elems |-> << >>]
            ELSE LET rest == ParseGroup(SubSeq(body, close + 1, Len(body)))
                 IN  [ok |-> rest.ok,
                      elems |-> << [optional |-> TRUE, tps |-> inner] >> \o rest.elems]
    ELSE [ok |-> FALSE, elems |-> << >>]

prepareQuery(text) ==
    LET w == IndexOf(text, WHERE_OPEN)
        n == Len(text)
        bad == [ok |-> FALSE, PV |-> << >>, elems |-> << >>]
    IN  IF n < 4 \/ text[1] # SELECT \/ w < 3 \/ text[n] # CLOSE THEN bad
        ELSE IF \E i \in 2..(w - 1) : text[i][1] # "var" THEN bad
        ELSE LET grp == ParseGroup(SubSeq(text, w + 1, n - 1))
             IN  IF ~grp.ok THEN bad
                 ELSE [ok |-> TRUE,
                       PV |-> [i \in 1..(w - 2) |-> text[i + 1][2]],
                       elems |-> grp.elems]

----------------------------------------------------------------------------
(* Graph.query: evaluation of the group against a graph.  A solution is a   *)
(* function from the variables it binds to terms.                           *)

EmptySolution == [v \in {} |-> ""]

PatVars(tp) == {tp[i] : i \in 2..4} \cap VarNames

\* The solutions of one triple pattern against one triple (none or one).
MatchTriple(tp, t) ==
    IF \A i \in 1..3 :
          /\ tp[i + 1] \notin VarNames => tp[i + 1] = t[i]
          /\ \A j \in 1..3 : tp[i + 1] = tp[j + 1] => t[i] = t[j]
    THEN { [v \in PatVars(tp) |-> t[CHOOSE i \in 1..3 : tp[i + 1] = v]] }
    ELSE {}

MatchPattern(tp, g) == UNION { MatchTriple(tp, t) : t \in g }

Compatible(m1, m2) ==
    \A v \in DOMAIN m1 \cap DOMAIN m2 : m1[v] = m2[v]

Merge(m1, m2) == [v \in DOMAIN m1 \cup DOMAIN m2 |->
                    IF v \in DOMAIN m1 THEN m1[v] ELSE m2[v]]

Join(s1, s2) ==
    { Merge(p[1], p[2]) : p \in { q \in s1 \X s2 : Compatible(q[1], q[2]) } }

LeftJoin(s1, s2) ==
    Join(s1, s2) \cup { m \in s1 : \A m2 \in s2 : ~Compatible(m, m2) }

RECURSIVE EvalBGP(_, _)
EvalBGP(tps, g) ==
    IF tps = << >> THEN {EmptySolution}
    ELSE Join(EvalBGP(SubSeq(tps, 1, Len(tps) - 1), g),
              MatchPattern(tps[Len(tps)], g))

RECURSIVE EvalGroup(_, _)
EvalGroup(elems, g) ==
    IF elems = << >> THEN {EmptySolution}
    ELSE LET before == EvalGroup(SubSeq(elems, 1, Len(elems) - 1), g)
             e == elems[Len(elems)]
         IN  IF e.optional
             THEN LeftJoin(before, EvalBGP(e.tps, g))
             ELSE Join(before, EvalBGP(e.tps, g))

GraphQuery(g, prepared) == EvalGroup(prepared.elems, g)

----------------------------------------------------------------------------
(* Requests                                                                 *)

\* BrainContext (all seven fields, as brain_context.dict() lists them)
BrainContext(user_id, channel, temporal_reasoning) ==
    [ user_id |-> user_id,
      channel |-> channel,
      memory_window_hours |-> 168,
      include_working_memory |-> TRUE,
      include_episodic_memory |-> TRUE,
      include_semantic_memory |-> TRUE,
      temporal_reasoning |-> temporal_reasoning ]

\* QueryRequest
QueryRequest(query, query_type, reasoning, limit, brain_context, query_hash) ==
    [ query |-> query,
      query_type |-> query_type,
      reasoning |-> reasoning,
      timeout |-> 10,
      limit |-> limit,
      brain_context |-> brain_context,
      query_hash |-> query_hash ]

\* json.dumps(hash_input, sort_keys=True): the members in key order, a
\* bool as true/false, None as null (here the empty sequence).
json_dumps(hash_input) ==
    << "brain_context", hash_input.brain_context,
       "query", hash_input.query,
       "reasoning", IF hash_input.reasoning THEN "true" ELSE "false" >>

\* hashlib.md5(text).hexdigest(), taken as collision-free.
md5_hexdigest(text) == [md5 |-> text]

\* (variant: the context is left out of the hashed input)
generate_query_hash_no_context(query_data) ==
    LET hash_input ==
            [ query |-> query_data.query,
              reasoning |-> query_data.reasoning,
              brain_context |-> None ]
    IN  md5_hexdigest(json_dumps(hash_input))

\* generate_query_hash
generate_query_hash(query_data) ==
    LET hash_input ==
            [ query |-> query_data.query,
              reasoning |-> query_data.reasoning,
              brain_context |-> query_data.brain_context ]
    IN  md5_hexdigest(json_dumps(hash_input))

----------------------------------------------------------------------------
(* execute_sparql_query                                                     *)

\* Python truthiness of a bound term (`if value:`): an rdflib Literal is
\* falsy when its value is ("" , 0, False); IRIs and blank nodes are not.
FalsyLiterals == {"\"\"", "\"0\"^^xsd:integer"}
Truthy(term) == term \notin FalsyLiterals

\* The result_row built for one solution (lines 189-203).
ResultRow(PV, sol) ==
    LET shown == { PV[i] : i \in 1..Len(PV) }
        bound == { v \in shown : v \in DOMAIN sol /\ Truthy(sol[v]) }
    IN  [ v \in bound |-> [type |-> TermType(sol[v]), value |-> sol[v]] ]

\* generate_brain_insights: the insights for one result row (none or one).
generate_brain_insights(result_row, brain_context) ==
    IF "concept" \in DOMAIN result_row
    THEN { [ concept_id |-> result_row["concept"].value,
             insight_type |-> "semantic_connection",
             channel |-> brain_context.channel ] }
    ELSE {}

\* results[:limit] when len(results) > limit: the rows that can be kept.
\* The list order is the graph's iteration order, so any rows of that number.
SliceLen(n, limit) == IF limit >= 0 THEN Min(n, limit) ELSE Max(n + limit, 0)

ApplyLimit(results, limit) ==
    IF Cardinality(results) > limit
    THEN { kept \in SUBSET results :
             Cardinality(kept) = SliceLen(Cardinality(results), limit) }
    ELSE { results }

\* (variant: the two TTLs the wrong way round)
cache_ttl_swapped(reasoning) == IF reasoning THEN 1800 ELSE 900

\* cache_ttl of line 237
cache_ttl(reasoning) == IF reasoning THEN 900 ELSE 1800

\* Redis: a key is readable until its TTL has elapsed.
Live(entry, t) == t < entry.stored_at + entry.ttl

redis_get(c, key, t) ==
    IF key \in DOMAIN c /\ Live(c[key], t) THEN Some(c[key].value) ELSE None

redis_setex(c, key, ttl, value, t) ==
    [ k \in DOMAIN c \cup {key} |->
        IF k = key THEN [value |-> value, ttl |-> ttl, stored_at |-> t]
        ELSE c[k] ]

CacheKey(query_hash) == << "rdf:query:", query_hash >>

\* The hash the handler uses (line 151).
QueryHashOf(query_data) ==
    IF IsNone(query_data.query_hash) THEN generate_query_hash(query_data)
    ELSE Get(query_data.query_hash)

FailedQueryResponse(query_hash) ==
    [ success |-> FALSE,
      results |-> {},
      reasoning_applied |-> FALSE,
      query_hash |-> query_hash,
      total_results |-> 0,
      error |-> Some("error"),
      brain_memory_integration |-> None,
      concept_insights |-> None ]

\* The list `results` is modelled as the set of its rows, each tagged with
\* the solution it was built from (two solutions can give equal rows).
\* The outcomes of the part of the handler inside `try` (lines 163-260),
\* on a cache miss.
EvaluateQuery(self, query_data, env) ==
    LET query_hash == QueryHashOf(query_data)
        reasoned == apply_reasoning(self.graph)
        self_graph == IF query_data.reasoning THEN reasoned.self_graph ELSE self.graph
        working_graph == IF query_data.reasoning THEN reasoned.reasoning_graph ELSE self.graph
        enhanced_query == enhance_query_with_brain_context(query_data.query,
                                                           query_data.brain_context)
        prepared_query == prepareQuery(enhanced_query)
        query_results == IF query_data.query_type = "SELECT"
                         THEN GraphQuery(working_graph, prepared_query)
                         ELSE {}
        results == { [sol |-> sol, row |-> ResultRow(prepared_query.PV, sol)] :
                        sol \in query_results }
        brain_insights ==
            IF IsNone(query_data.brain_context) THEN {}
            ELSE UNION { { [sol |-> r.sol, insight |-> i] :
                            i \in generate_brain_insights(r.row, Get(query_data.brain_context)) } :
                         r \in results }
        Response(kept) ==
            [ success |-> TRUE,
              results |-> kept,
              reasoning_applied |-> query_data.reasoning,
              query_hash |-> query_hash,
              total_results |-> Cardinality(kept),
              error |-> None,
              brain_memory_integration |-> Some(
                  [ concepts_analyzed |-> Cardinality(brain_insights),
                    memory_contexts_used |-> IF IsNone(query_data.brain_context) THEN 0 ELSE 1,
                    temporal_reasoning_applied |->
                        IF IsNone(query_data.brain_context) THEN FALSE
                        ELSE Get(query_data.brain_context).temporal_reasoning ]),
              concept_insights |-> Some(brain_insights) ]
        Stored(response) ==
            IF self.redis_client /\ response.success /\ ~env.setex_fails
            THEN redis_setex(self.cache, CacheKey(query_hash),
                             cache_ttl(query_data.reasoning), response, self.now)
            ELSE self.cache
        get_raised == IF self.redis_client /\ env.get_fails THEN {"get"} ELSE {}
        setex_raised == IF self.redis_client /\ env.setex_fails THEN {"setex"} ELSE {}
    IN  IF ~prepared_query.ok
        THEN { [ graph |-> self_graph, cache |-> self.cache,
                 response |-> FailedQueryResponse(query_hash), hit |-> FALSE,
                 raised |-> get_raised ] }
        ELSE { [ graph |-> self_graph, cache |-> Stored(Response(kept)),
                 response |-> Response(kept), hit |-> FALSE,
                 raised |-> get_raised \cup setex_raised ] :
               kept \in ApplyLimit(results, query_data.limit) }

\* (variant: the response is written to the cache whatever its success flag,
\* also from the except branch)
execute_sparql_query_caching_failures(self, query_data, env) ==
    LET query_hash == QueryHashOf(query_data)
        cached_result ==
            IF self.redis_client /\ ~env.get_fails
            THEN redis_get(self.cache, CacheKey(query_hash), self.now)
            ELSE None
    IN  IF ~IsNone(cached_result)
        THEN { [ graph |-> self.graph, cache |-> self.cache,
                 response |-> Get(cached_result), hit |-> TRUE, raised |-> {} ] }
        ELSE { IF self.redis_client /\ ~out.response.success /\ ~env.setex_fails
               THEN [ out EXCEPT !.cache =
                        redis_setex(self.cache, CacheKey(query_hash),
                                    cache_ttl(query_data.reasoning),
                                    out.response, self.now) ]
               ELSE out :
               out \in EvaluateQuery(self, query_data, env) }

\* (variant: an error of the cache read is not caught by its own handler and
\* ends the call with the failure response)
execute_sparql_query_surfacing(self, query_data, env) ==
    LET query_hash == QueryHashOf(query_data)
        cached_result == redis_get(self.cache, CacheKey(query_hash), self.now)
    IN  IF self.redis_client /\ env.get_fails
        THEN { [ graph |-> self.graph, cache |-> self.cache,
                 response |-> FailedQueryResponse(query_hash), hit |-> FALSE,
                 raised |-> {"get"} ] }
        ELSE IF self.redis_client /\ ~IsNone(cached_result)
        THEN { [ graph |-> self.graph, cache |-> self.cache,
                 response |-> Get(cached_result), hit |-> TRUE, raised |-> {} ] }
        ELSE EvaluateQuery(self, query_data, env)

\* execute_sparql_query: the outcomes of one call.  env tells which Redis
\* commands raise if the call issues them; `raised` is those that did.
\* get_fails stands for any error inside the try block of the cache read:
\* redis get raising, or parse_raw raising on a stored text it cannot read;
\* one except clause handles both and the call goes on as on a miss.
execute_sparql_query(self, query_data, env) ==
    LET query_hash == QueryHashOf(query_data)
        cached_result ==
            IF self.redis_client /\ ~env.get_fails
            THEN redis_get(self.cache, CacheKey(query_hash), self.now)
            ELSE None
    IN  IF ~IsNone(cached_result)
        THEN { [ graph |-> self.graph, cache |-> self.cache,
                 response |-> Get(cached_result), hit |-> TRUE, raised |-> {} ] }
        ELSE EvaluateQuery(self, query_data, env)

----------------------------------------------------------------------------
(* import_rdf_data                                                          *)

RDFImportRequest(data, validation, clear_graph) ==
    [ data |-> data, format |-> "turtle",
      validation |-> validation, clear_graph |-> clear_graph ]

\* Lines 492-498: delete every key matching rdf:query:*.  When a Redis
\* command raises part-way, the keys in env.deleted are gone and the rest
\* stay; the error is logged and the import goes on.
ClearQueryCache(self, env) ==
    IF ~self.redis_client THEN self.cache
    ELSE IF env.scan_fails
         THEN [ k \in DOMAIN self.cache \ env.deleted |-> self.cache[k] ]
         ELSE [ k \in {} |-> self.cache[k] ]

FailedImportResponse ==
    [ success |-> FALSE, triples_imported |-> 0,
      total_triples |-> None, error |-> Some("error") ]

\* (variant: the graph is replaced by an empty Graph() and setup_ontology is
\* not called again)
ClearGraph_unseeded(self, import_data) ==
    IF import_data.clear_graph THEN {} ELSE self.graph

\* (variant: the size is taken from a freshly seeded graph, not from the
\* graph the call found)
InitialSize_of_baseline(self) == Cardinality(setup_ontology({}))

\* Line 476: initial_size = len(self.graph), before anything else.
InitialSize(self) == Cardinality(self.graph)

\* Lines 478-480: with clear_graph the graph is replaced by a fresh Graph()
\* on which setup_ontology is run.
ClearGraph(self, import_data) ==
    IF import_data.clear_graph THEN setup_ontology({}) ELSE self.graph

\* import_rdf_data: the state and response after one call.
import_rdf_data(self, import_data, env) ==
    LET initial_size == InitialSize(self)
        cleared == ClearGraph(self, import_data)
        temp_graph == GraphParse({}, import_data.data)
        parsed == GraphParse(cleared, import_data.data)
    IN  IF import_data.validation /\ ~temp_graph.ok
        THEN [ graph |-> cleared, cache |-> self.cache,
               response |-> FailedImportResponse, raised |-> {} ]
        ELSE IF ~parsed.ok
        THEN [ graph |-> parsed.graph, cache |-> self.cache,
               response |-> FailedImportResponse, raised |-> {} ]
        ELSE [ graph |-> parsed.graph,
               cache |-> ClearQueryCache(self, env),
               response |->
                 [ success |-> TRUE,
                   triples_imported |-> Cardinality(parsed.graph) - initial_size,
                   total_triples |-> Some(Cardinality(parsed.graph)),
                   error |-> None ],
               raised |-> IF self.redis_client /\ env.scan_fails
                          THEN {"scan"} ELSE {} ]

----------------------------------------------------------------------------
(* evolve_concept                                                           *)

CONCEPT(id) == "concept:" \o id
Literal(text) == "\"" \o text \o "\""

\* Strings for which str.startswith('http') holds.
HttpStrings == {"http://ex/s1"}

\* One item of new_information: the keys it has, and their values.
Info(keys, subject, predicate, object, confidence) ==
    [ keys |-> keys, subject |-> subject, predicate |-> predicate,
      object |-> object, confidence |-> confidence ]

InfoKeys == {"subject", "predicate", "object"}

\* The loop of lines 350-363 over the items not yet processed: the graph,
\* the blank nodes minted, and whether an item raised (KeyError).
RECURSIVE AddInformation(_, _, _, _)
AddInformation(g, minted, concept_uri, items) ==
    IF items = << >> THEN [ok |-> TRUE, graph |-> g, minted |-> minted]
    ELSE LET info == Head(items)
             subject == IF info.subject \in HttpStrings THEN info.subject
                        ELSE concept_uri
             obj == Literal(info.object)
             g1 == g \cup {T(subject, info.predicate, obj)}
             confidence_triple == BNodeNames[minted + 1]
             g2 == g1 \cup { T(confidence_triple, OMNII_hasConfidence,
                               Literal(info.confidence)),
                             T(subject, OMNII_hasEvidence, confidence_triple) }
         IN  IF ~(InfoKeys \subseteq info.keys)
             THEN [ok |-> FALSE, graph |-> g, minted |-> minted]
             ELSE IF "confidence" \in info.keys
             THEN AddInformation(g2, minted + 1, concept_uri, Tail(items))
             ELSE AddInformation(g1, minted, concept_uri, Tail(items))

ConceptEvolutionRequest(concept_id, concept_name, new_information) ==
    [ concept_id |-> concept_id, concept_name |-> concept_name,
      new_information |-> new_information ]

\* evolve_concept: the state and response after one call.  The cache is
\* not touched anywhere in the method.
EvolveOutcome(self, evolution_data, cache_after) ==
    LET concept_uri == CONCEPT(evolution_data.concept_id)
        declared == self.graph \cup
            { T(concept_uri, RDF_type, OMNII_Concept),
              T(concept_uri, RDFS_label, Literal(evolution_data.concept_name)) }
        added == AddInformation(declared, self.next_bnode, concept_uri,
                                evolution_data.new_information)
    IN  [ graph |-> added.graph,
          cache |-> cache_after,
          next_bnode |-> added.minted,
          response |-> [ success |-> added.ok,
                         concept_id |-> evolution_data.concept_id,
                         error |-> IF added.ok THEN None ELSE Some("error") ] ]

\* (variant: the method also deletes the rdf:query:* keys, as the import does)
evolve_concept_invalidating(self, evolution_data) ==
    EvolveOutcome(self, evolution_data, [ k \in {} |-> self.cache[k] ])

evolve_concept(self, evolution_data) ==
    EvolveOutcome(self, evolution_data, self.cache)

\* The blank nodes a call of evolve_concept would mint.
BNodesNeeded(items) ==
    Cardinality({ i \in 1..Len(items) : "confidence" \in items[i].keys })

----------------------------------------------------------------------------
(* analyze_brain_memory                                                     *)

\* BrainAnalysisRequest: of its four dictionaries the method reads only
\* full_brain_context.  working_memory is None when the key is absent;
\* otherwise it is a value of some JSON type, and a dictionary carries the
\* keys the method looks up.
WorkingMemory(active_concepts, current_week_count, previous_week_count) ==
    [ type |-> "dict", active_concepts |-> active_concepts,
      current_week_count |-> current_week_count,
      previous_week_count |-> previous_week_count ]

NotADict == [ type |-> "str" ]

BrainAnalysisRequest(working_memory) ==
    [ full_brain_context |-> [ working_memory |-> working_memory ] ]

FailedAnalysisResponse ==
    [ success |-> FALSE, concept_insights |-> << >>, temporal_patterns |-> << >>,
      semantic_connections |-> << >>, consolidation_recommendations |-> << >>,
      error |-> Some("error") ]

\* The body of analyze_brain_memory's try block on a dictionary.
AnalyzeWorkingMemory(working_memory) ==
    LET active_concepts == working_memory.active_concepts
        concept_insights ==
            [ i \in 1..Len(active_concepts) |->
                [ concept_id |-> active_concepts[i],
                  insight_type |-> "semantic_connection" ] ]
        temporal_patterns ==
            IF working_memory.current_week_count > working_memory.previous_week_count
            THEN << [ pattern_type |-> "increasing_activity" ] >>
            ELSE << >>
        consolidation_recommendations ==
            IF Len(concept_insights) > 5
            THEN << [ recommendation_type |-> "memory_consolidation",
                      concepts_involved |-> SubSeq(active_concepts, 1, 5) ] >>
            ELSE << >>
    IN  [ success |-> TRUE, concept_insights |-> concept_insights,
          temporal_patterns |-> temporal_patterns,
          semantic_connections |-> << >>,
          consolidation_recommendations |-> consolidation_recommendations,
          error |-> None ]

\* (variant: no try/except; the AttributeError of .get on a value that is not
\* a dictionary leaves the method)
analyze_brain_memory_unguarded(analysis_data) ==
    LET wm == analysis_data.full_brain_context.working_memory
    IN  IF IsNone(wm) THEN AnalyzeWorkingMemory(WorkingMemory(<< >>, 0, 0))
        ELSE IF Get(wm).type = "dict" THEN AnalyzeWorkingMemory(Get(wm))
        ELSE [ exception |-> "AttributeError" ]

\* analyze_brain_memory: reads the request only; the graph and the cache
\* are not touched.  An absent working_memory defaults to {}.
analyze_brain_memory(analysis_data) ==
    LET wm == analysis_data.full_brain_context.working_memory
    IN  IF IsNone(wm) THEN AnalyzeWorkingMemory(WorkingMemory(<< >>, 0, 0))
        ELSE IF Get(wm).type = "dict" THEN AnalyzeWorkingMemory(Get(wm))
        ELSE FailedAnalysisResponse

----------------------------------------------------------------------------
(* The introspection routes /health, /ontology, /metrics.  Each returns the *)
(* state it leaves behind next to its response.  env.dbsize_fails: the      *)
(* Redis command dbsize raises.                                             *)

\* redis_client.dbsize(): the number of keys Redis holds.
redis_dbsize(c) == Cardinality(DOMAIN c)

\* (variant: the health check also writes a heartbeat key with a TTL)
health_check_with_heartbeat(self, env) ==
    [ graph |-> self.graph,
      cache |-> IF self.redis_client
                THEN redis_setex(self.cache, <<"rdf:health", "">>, 900,
                                 FailedQueryResponse(""), self.now)
                ELSE self.cache,
      response |-> [ status |-> "healthy",
                     graph_size |-> Cardinality(self.graph),
                     cache_size |-> IF self.redis_client /\ ~env.dbsize_fails
                                    THEN redis_dbsize(self.cache) ELSE 0 ] ]

health_check(self, env) ==
    [ graph |-> self.graph,
      cache |-> self.cache,
      response |-> [ status |-> "healthy",
                     graph_size |-> Cardinality(self.graph),
                     cache_size |-> IF self.redis_client /\ ~env.dbsize_fails
                                    THEN redis_dbsize(self.cache) ELSE 0 ] ]

\* Graph.serialize(format="turtle"): the document is modelled by the set of
\* statements it holds, one per triple.
GraphSerialize(g) == [ format |-> "turtle", statements |-> { t : t \in g } ]

get_ontology(self) ==
    [ graph |-> self.graph,
      cache |-> self.cache,
      response |-> [ success |-> TRUE,
                     ontology |-> GraphSerialize(self.graph),
                     triple_count |-> Cardinality(self.graph) ] ]

get_metrics(self, env) ==
    [ graph |-> self.graph,
      cache |-> self.cache,
      response |->
        [ graph_size |-> Cardinality(self.graph),
          cache_stats |-> IF self.redis_client /\ ~env.dbsize_fails
                          THEN [connected |-> TRUE,
                                key_count |-> redis_dbsize(self.cache)]
                          ELSE [connected |-> FALSE, key_count |-> 0],
          ontology_classes |-> Cardinality(
              { t \in self.graph : t[2] = RDF_type /\ t[3] = OWL_Class }),
          ontology_properties |-> Cardinality(
              { t \in self.graph : /\ t[2] = RDF_type
                                   /\ t[3] \in {OWL_ObjectProperty,
                                                OWL_DatatypeProperty} }) ] ]

----------------------------------------------------------------------------
(* The calls the model makes                                                *)

NoContext == None
CtxA == Some(BrainContext("u1", "sms", TRUE))

PlainConcept(limit) == QueryRequest(QConcept, "SELECT", FALSE, limit, NoContext, None)

QueryRequests ==
    { QueryRequest(QConcept, "SELECT", r, 2, NoContext, None) : r \in BOOLEAN }
    \cup
    { QueryRequest(QProperty, "SELECT", FALSE, l, NoContext, None) : l \in {1, 2} }
    \cup
    { QueryRequest(QConcept, "SELECT", FALSE, 2, CtxA, None),
      \* a caller that sends the digest of another request as query_hash
      QueryRequest(QProperty, "SELECT", TRUE, 2, NoContext,
                   Some(generate_query_hash(PlainConcept(2)))),
      \* unparsable text, with reasoning asked for (the reasoner runs first)
      QueryRequest(QInvalid, "SELECT", TRUE, 2, NoContext, None) }

ImportRequests ==
    { RDFImportRequest(d, v, c) : d \in Documents, v \in BOOLEAN, c \in BOOLEAN }

InfoNote == Info({"subject", "predicate", "object"}, "self", "ex:note", "note", "")
InfoEvidence == Info({"subject", "predicate", "object", "confidence"},
                     "http://ex/s1", "ex:note", "note", "0.9")
InfoNoPredicate == Info({"subject", "object"}, "self", "", "note", "")

EvolutionRequests ==
    { ConceptEvolutionRequest("k1", "n1", items) :
        items \in { << >>, <<InfoEvidence>>, <<InfoNote, InfoNoPredicate>> } }

AnalysisRequests ==
    { BrainAnalysisRequest(None),
      BrainAnalysisRequest(Some(WorkingMemory(<<"c1">>, 3, 1))),
      BrainAnalysisRequest(Some(WorkingMemory(
          <<"c1", "c2", "c3", "c4", "c5", "c6">>, 0, 0))),
      BrainAnalysisRequest(Some(NotADict)) }

----------------------------------------------------------------------------
(* State machine                                                            *)

Self == [ graph |-> graph, redis_client |-> redis_client, cache |-> cache,
          now |-> now, next_bnode |-> next_bnode ]

EmptyCache == [ k \in {} |-> None ]

\* A Redis command can raise only where there is a client to call.
RedisFaults == IF redis_client THEN BOOLEAN ELSE {FALSE}

\* RDFServiceManager.__init__: setup_redis (which may or may not connect),
\* then setup_ontology on an empty Graph().
Init ==
    /\ graph = setup_ontology({})
    /\ redis_client \in BOOLEAN
    /\ cache = EmptyCache
    /\ now = 0
    /\ next_bnode = 0
    /\ calls = 0
    /\ loop = << >>
    /\ last = [op |-> "init"]

\* POST /query
Query ==
    /\ calls < MaxCalls
    /\ \E query_data \in QueryRequests, get_fails \in RedisFaults,
          setex_fails \in RedisFaults :
         LET env == [get_fails |-> get_fails, setex_fails |-> setex_fails]
         IN  \E out \in execute_sparql_query(Self, query_data, env) :
               /\ graph' = out.graph
               /\ cache' = out.cache
               /\ last' = [ op |-> "query", req |-> query_data,
                            resp |-> out.response, hit |-> out.hit,
                            key |-> CacheKey(QueryHashOf(query_data)),
                            raised |-> out.raised ]
    /\ calls' = calls + 1
    /\ UNCHANGED <<redis_client, now, next_bnode, loop>>

\* POST /import-rdf
Import ==
    /\ calls < MaxCalls
    /\ \E import_data \in ImportRequests, scan_fails \in RedisFaults,
          deleted \in SUBSET DOMAIN cache :
         LET env == [scan_fails |-> scan_fails, deleted |-> deleted]
             out == import_rdf_data(Self, import_data, env)
         IN  /\ scan_fails \/ deleted = {}
             /\ graph' = out.graph
             /\ cache' = out.cache
             /\ last' = [ op |-> "import", req |-> import_data,
                          resp |-> out.response, raised |-> out.raised ]
    /\ calls' = calls + 1
    /\ UNCHANGED <<redis_client, now, next_bnode, loop>>

\* POST /evolve-concept
Evolve ==
    /\ calls < MaxCalls
    /\ \E evolution_data \in EvolutionRequests :
         LET out == evolve_concept(Self, evolution_data)
         IN  /\ next_bnode + BNodesNeeded(evolution_data.new_information) <= MaxBNodes
             /\ graph' = out.graph
             /\ cache' = out.cache
             /\ next_bnode' = out.next_bnode
             /\ last' = [ op |-> "evolve", req |-> evolution_data,
                          resp |-> out.response ]
    /\ calls' = calls + 1
    /\ UNCHANGED <<redis_client, now, loop>>

\* Time passes; Redis drops the keys whose TTL has elapsed.
Tick ==
    /\ now + TickStep <= MaxTime
    /\ now' = now + TickStep
    /\ cache' = [ k \in { j \in DOMAIN cache : Live(cache[j], now + TickStep) }
                    |-> cache[k] ]
    /\ UNCHANGED <<graph, redis_client, next_bnode, calls, last, loop>>

Next == Query \/ Import \/ Evolve \/ Tick

Spec == Init /\ [][Next]_vars

\* The service with its analysis endpoint as well.
Analyze ==
    /\ calls < MaxCalls
    /\ \E analysis_data \in AnalysisRequests :
         last' = [ op |-> "analyze", req |-> analysis_data,
                   resp |-> analyze_brain_memory(analysis_data) ]
    /\ calls' = calls + 1
    /\ UNCHANGED <<graph, redis_client, cache, now, next_bnode, loop>>

NextService == Query \/ Import \/ Evolve \/ Analyze \/ Tick

SpecService == Init /\ [][NextService]_vars

\* The service with its introspection routes as well.
Health ==
    /\ calls < MaxCalls
    /\ \E dbsize_fails \in RedisFaults :
         LET out == health_check(Self, [dbsize_fails |-> dbsize_fails])
         IN  /\ graph' = out.graph
             /\ cache' = out.cache
             /\ last' = [ op |-> "health", resp |-> out.response ]
    /\ calls' = calls + 1
    /\ UNCHANGED <<redis_client, now, next_bnode, loop>>

Ontology ==
    /\ calls < MaxCalls
    /\ LET out == get_ontology(Self)
       IN  /\ graph' = out.graph
           /\ cache' = out.cache
           /\ last' = [ op |-> "ontology", resp |-> out.response ]
    /\ calls' = calls + 1
    /\ UNCHANGED <<redis_client, now, next_bnode, loop>>

Metrics ==
    /\ calls < MaxCalls
    /\ \E dbsize_fails \in RedisFaults :
         LET out == get_metrics(Self, [dbsize_fails |-> dbsize_fails])
         IN  /\ graph' = out.graph
             /\ cache' = out.cache
             /\ last' = [ op |-> "metrics", resp |-> out.response ]
    /\ calls' = calls + 1
    /\ UNCHANGED <<redis_client, now, next_bnode, loop>>

NextIntrospect == NextService \/ Health \/ Ontology \/ Metrics

SpecIntrospect == Init /\ [][NextIntrospect]_vars

----------------------------------------------------------------------------
(* Properties                                                               *)

\* The step just taken was a call of the named handler.
Called(op) == calls' = calls + 1 /\ last'.op = op

NoFaults == [get_fails |-> FALSE, setex_fails |-> FALSE]


\* The result sets a fresh evaluation of the request can return now.
FreshResults(query_data) ==
    { out.response.results : out \in EvaluateQuery(Self, query_data, NoFaults) }

\* C1: an import with validation=true whose data does not parse returns
\* success:false and leaves the base graph exactly as it was, whatever
\* clear_graph is.
C1_FailedValidationKeepsGraph ==
    [][ ( /\ Called("import")
          /\ last'.req.validation
          /\ ~GraphParse({}, last'.req.data).ok )
        => (~last'.resp.success /\ graph' = graph) ]_vars

\* C2: when an import has returned success:true, no query cache entry is
\* left.
C2_SuccessfulImportEmptiesCache ==
    (last.op = "import" /\ last.resp.success) => DOMAIN cache = {}

\* C3: a query answered from the cache returns rows that evaluating the
\* query against the current base graph can return.
C3_CacheHitEqualsEvaluation ==
    (last.op = "query" /\ last.hit) => last.resp.results \in FreshResults(last.req)

\* C4: evolve_concept leaves every cache entry as it was.
C4_EvolveKeepsCache ==
    [][ Called("evolve") => cache' = cache ]_vars

\* C4 witness: after an evolve_concept call that declared concept:k1, the
\* entry cached for the concept query still holds its pre-evolve (empty) rows.
C4_Witness ==
    /\ last.op = "evolve"
    /\ T(CONCEPT("k1"), RDF_type, OMNII_Concept) \in graph
    /\ CacheKey(generate_query_hash(PlainConcept(2))) \in DOMAIN cache
    /\ cache[CacheKey(generate_query_hash(PlainConcept(2)))].value.results = {}
    /\ FreshResults(PlainConcept(2)) # {{}}

\* C5: the key a query looks up and stores under is the digest of its own
\* (query text, reasoning flag, context), whatever its other fields.
C5_KeyIsDigestOfRequest ==
    last.op = "query" => last.key = CacheKey(generate_query_hash(last.req))

\* The full set of rows the request's query matches now.
MatchingRows(query_data) ==
    LET working_graph == IF query_data.reasoning
                         THEN apply_reasoning(graph).reasoning_graph
                         ELSE graph
        prepared_query == prepareQuery(
            enhance_query_with_brain_context(query_data.query, query_data.brain_context))
    IN  IF prepared_query.ok /\ query_data.query_type = "SELECT"
        THEN GraphQuery(working_graph, prepared_query)
        ELSE {}

\* C7: every successful query response, fresh or cached, has
\* total_results = len(results) = min(limit, number of matching rows).
C7_TotalIsMinLimitMatches ==
    (last.op = "query" /\ last.resp.success) =>
        /\ last.resp.total_results = Cardinality(last.resp.results)
        /\ last.resp.total_results =
             Min(last.req.limit, Cardinality(MatchingRows(last.req)))

----------------------------------------------------------------------------
(* generate_query_hash on pairs of requests                                 *)

\* Contexts that differ from HashBaseContext in exactly one field each.
HashBaseContext == BrainContext("u1", "sms", TRUE)

HashContexts ==
    { None, Some(HashBaseContext) }
    \cup { Some([HashBaseContext EXCEPT !.user_id = "u2"]),
           Some([HashBaseContext EXCEPT !.channel = "chat"]),
           Some([HashBaseContext EXCEPT !.memory_window_hours = 24]),
           Some([HashBaseContext EXCEPT !.include_working_memory = FALSE]),
           Some([HashBaseContext EXCEPT !.include_episodic_memory = FALSE]),
           Some([HashBaseContext EXCEPT !.include_semantic_memory = FALSE]),
           Some([HashBaseContext EXCEPT !.temporal_reasoning = FALSE]) }

HashRequests ==
    { QueryRequest(q, "SELECT", r, l, c, None) :
        q \in {QConcept, QProperty}, r \in BOOLEAN, l \in {1, 2}, c \in HashContexts }

InitHash ==
    /\ graph = setup_ontology({})
    /\ redis_client = FALSE
    /\ cache = EmptyCache
    /\ now = 0
    /\ next_bnode = 0
    /\ calls = 0
    /\ loop = << >>
    /\ \E a \in HashRequests, b \in HashRequests :
         last = [op |-> "requests", a |-> a, b |-> b]

HashBoth ==
    /\ last.op = "requests"
    /\ last' = [ op |-> "hashed", a |-> last.a, b |-> last.b,
                 hash_a |-> generate_query_hash(last.a),
                 hash_b |-> generate_query_hash(last.b) ]
    /\ UNCHANGED <<graph, redis_client, cache, now, next_bnode, calls, loop>>

NextHash == HashBoth

SpecHash == InitHash /\ [][NextHash]_vars

\* C6: generate_query_hash gives two requests the same digest exactly when
\* they agree in query text, reasoning flag and context (by value).
C6_DigestIffSameTriple ==
    last.op = "hashed" =>
        ( (last.hash_a = last.hash_b)
          <=> ( /\ last.a.query = last.b.query
                /\ last.a.reasoning = last.b.reasoning
                /\ last.a.brain_context = last.b.brain_context ) )

\* C6 witness: two requests that differ only in one field of the context
\* have been hashed and got different digests.
C6_Witness ==
    /\ last.op = "hashed"
    /\ last.a.query = last.b.query /\ last.a.reasoning = last.b.reasoning
    /\ last.a.limit = last.b.limit
    /\ ~IsNone(last.a.brain_context) /\ ~IsNone(last.b.brain_context)
    /\ Get(last.a.brain_context).channel # Get(last.b.brain_context).channel
    /\ last.hash_a # last.hash_b

----------------------------------------------------------------------------
(* apply_reasoning on a range of base graphs                                *)

ReasonerTriples ==
    { T("ex:Sub", RDFS_subClassOf, OMNII_Concept),
      T("ex:Sub2", RDFS_subClassOf, "ex:Sub"),
      T("ex:c2", RDF_type, "ex:Sub"),
      T("ex:c4", RDF_type, "ex:Sub2"),
      T("ex:p", RDFS_domain, "ex:Sub"),
      T("ex:p", RDFS_range, OMNII_Concept),
      T("ex:a", "ex:p", "ex:b"),
      T("ex:a", "ex:p", Literal("note")) }

InitReason ==
    /\ \E extra \in SUBSET ReasonerTriples : graph = setup_ontology({}) \cup extra
    /\ redis_client = FALSE
    /\ cache = EmptyCache
    /\ now = 0
    /\ next_bnode = 0
    /\ calls = 0
    /\ loop = << >>
    /\ last = [op |-> "init"]

Reason ==
    /\ last.op = "init"
    /\ LET out == apply_reasoning(graph)
       IN  /\ graph' = out.self_graph
           /\ last' = [ op |-> "reasoned", base |-> graph,
                        reasoning_graph |-> out.reasoning_graph ]
    /\ UNCHANGED <<redis_client, cache, now, next_bnode, calls, loop>>

\* apply_reasoning applied to the graph a first application returned.
ReasonAgain ==
    /\ last.op = "reasoned"
    /\ LET out == apply_reasoning(last.reasoning_graph)
       IN  last' = [ op |-> "reasoned_again", base |-> last.base,
                     first |-> last.reasoning_graph,
                     reasoning_graph |-> out.reasoning_graph ]
    /\ UNCHANGED <<graph, redis_client, cache, now, next_bnode, calls, loop>>

NextReason == Reason \/ ReasonAgain

SpecReason == InitReason /\ [][NextReason]_vars

\* C10: the graph apply_reasoning returns contains every triple of the base
\* graph it was applied to.
C10_ReasonerMonotone ==
    last.op = "reasoned" => last.base \subseteq last.reasoning_graph

\* C10 witness: the reasoner has been applied to a graph with a subclass
\* chain and returned a graph with derived triples on top of the base ones.
C10_Witness ==
    /\ last.op = "reasoned"
    /\ T("ex:c4", RDF_type, "ex:Sub2") \in last.base
    /\ T("ex:c4", RDF_type, OMNII_Concept) \notin last.base
    /\ T("ex:c4", RDF_type, OMNII_Concept) \in last.reasoning_graph

----------------------------------------------------------------------------

\* What holds of every stored entry: its TTL, its age.
C8_EntryTtl ==
    \A k \in DOMAIN cache :
        /\ cache[k].ttl = (IF cache[k].value.reasoning_applied THEN 900 ELSE 1800)
        /\ cache[k].stored_at <= now
        /\ now < cache[k].stored_at + cache[k].ttl

\* What a step may do to the entries: a hit changes nothing, and an entry
\* changes only by being stored anew.
C8_StepTtl ==
    /\ (Called("query") /\ last'.hit) =>
          /\ last'.key \in DOMAIN cache
          /\ now < cache[last'.key].stored_at + cache[last'.key].ttl
          /\ last'.resp = cache[last'.key].value
          /\ cache' = cache
    /\ \A k \in DOMAIN cache' :
          \/ k \in DOMAIN cache /\ cache'[k] = cache[k]
          \/ /\ Called("query") /\ ~last'.hit /\ last'.key = k
             /\ cache'[k].stored_at = now
             /\ cache'[k].ttl = (IF last'.req.reasoning THEN 900 ELSE 1800)

\* C8: an entry is stored with TTL 900 when the storing request asked for
\* reasoning and 1800 otherwise, counted from the moment it is stored; a
\* cache hit returns only an entry whose TTL has not elapsed and leaves the
\* entry (and so its expiry) as it was; no readable entry is older than its
\* TTL.
C8_TtlFixedAtInsertion == []C8_EntryTtl /\ [][C8_StepTtl]_vars

\* C8 witness: a query is answered at time 900 from an entry stored at time
\* 0 with TTL 1800, and the entry still carries the expiry it was given.
C8_Witness ==
    /\ last.op = "query" /\ last.hit
    /\ now = 900
    /\ last.key \in DOMAIN cache
    /\ cache[last.key].stored_at = 0
    /\ cache[last.key].ttl = 1800

\* C9: a query call leaves the base graph as it was.
C9_QueryKeepsGraph ==
    [][ Called("query") => graph' = graph ]_vars

\* C9 witness: a reasoning query has returned a row that rests on a derived
\* triple, and that triple is not in the base graph.
C9_Witness ==
    /\ last.op = "query" /\ last.req.reasoning /\ ~last.hit /\ last.resp.success
    /\ \E r \in last.resp.results :
          /\ "concept" \in DOMAIN r.row
          /\ T(r.row["concept"].value, RDF_type, OMNII_Concept) \notin graph

----------------------------------------------------------------------------
(* Failures, cache faults and the standing graph                            *)

\* The last call met an error inside its handler: a query whose text does
\* not parse (on a miss), an import of a document that does not parse, an
\* evolution with an item that lacks a key, an analysis whose
\* working_memory is not a dictionary.
HandlerRaised ==
    \/ /\ last.op = "query" /\ ~last.hit
       /\ ~prepareQuery(enhance_query_with_brain_context(
                last.req.query, last.req.brain_context)).ok
    \/ last.op = "import" /\ ~GraphParse({}, last.req.data).ok
    \/ /\ last.op = "evolve"
       /\ \E i \in 1..Len(last.req.new_information) :
             ~(InfoKeys \subseteq last.req.new_information[i].keys)
    \/ /\ last.op = "analyze"
       /\ ~IsNone(last.req.full_brain_context.working_memory)
       /\ Get(last.req.full_brain_context.working_memory).type # "dict"

\* C12: every call of query, import, evolve_concept or analyze_brain_memory
\* ends with a response that carries a success flag (no exception leaves
\* the handler); a call that met an error answers success = FALSE; every
\* success = FALSE response carries an error message, and a failed query
\* has no rows and total_results 0.
C12_FailuresAreResponses ==
    last.op \in {"query", "import", "evolve", "analyze"} =>
        /\ {"success", "error"} \subseteq DOMAIN last.resp
        /\ HandlerRaised => ~last.resp.success
        /\ ~last.resp.success =>
              /\ ~IsNone(last.resp.error)
              /\ last.op = "query" =>
                    last.resp.results = {} /\ last.resp.total_results = 0

\* C12 witness: an analysis was handed a working_memory that is not a
\* dictionary and answered with a failure response, after an earlier call.
C12_Witness ==
    /\ last.op = "analyze" /\ HandlerRaised
    /\ ~last.resp.success /\ ~IsNone(last.resp.error)
    /\ calls > 1

\* The service as it would be with no Redis connection at all.
WithoutCache == [ Self EXCEPT !.redis_client = FALSE, !.cache = EmptyCache ]

\* C13: a query during which a Redis command raised (the read or the
\* write), or that ran with no Redis connection, is not answered from the
\* cache, and its success flag and rows are those a service without any
\* cache can return for the same request on the same graph.
C13_CacheFaultIsAMiss ==
    (last.op = "query" /\ (last.raised # {} \/ ~redis_client)) =>
        /\ ~last.hit
        /\ \E out \in execute_sparql_query(WithoutCache, last.req, NoFaults) :
              /\ out.response.success = last.resp.success
              /\ out.response.results = last.resp.results

\* C13 witness: both the read and the write of the cache raised during a
\* query for which a live entry was stored, and the query returned rows.
C13_Witness ==
    /\ last.op = "query" /\ last.raised = {"get", "setex"}
    /\ last.key \in DOMAIN cache /\ Live(cache[last.key], now)
    /\ last.resp.success /\ last.resp.results # {}

----------------------------------------------------------------------------
(* enhance_query_with_brain_context on a range of texts and contexts        *)

EnhanceTexts == {QConcept, QProperty, QInvalid, QLower, QNested, QBare}

EnhanceContexts ==
    {None} \cup { Some(BrainContext(u, c, t)) :
                    u \in {"u1", "u2"}, c \in {"sms", "chat"}, t \in BOOLEAN }

InitEnhance ==
    /\ graph = setup_ontology({})
    /\ redis_client = FALSE
    /\ cache = EmptyCache
    /\ now = 0
    /\ next_bnode = 0
    /\ calls = 0
    /\ loop = << >>
    /\ \E q \in EnhanceTexts, c \in EnhanceContexts :
         last = [op |-> "text", original_query |-> q, brain_context |-> c]

Enhance ==
    /\ last.op = "text"
    /\ last' = [ op |-> "enhanced", original_query |-> last.original_query,
                 brain_context |-> last.brain_context,
                 enhanced_query |-> enhance_query_with_brain_context(
                     last.original_query, last.brain_context) ]
    /\ UNCHANGED <<graph, redis_client, cache, now, next_bnode, calls, loop>>

NextEnhance == Enhance

SpecEnhance == InitEnhance /\ [][NextEnhance]_vars

\* The number of occurrences of a token in a text.
Count(text, tok) == Cardinality({ i \in 1..Len(text) : text[i] = tok })

\* The tokens `part` stand in `text` one after the other from position i.
At(text, i, part) ==
    /\ i + Len(part) - 1 <= Len(text)
    /\ SubSeq(text, i, i + Len(part) - 1) = part

\* C14: whenever a context is supplied, the text the method returns contains
\* the existence filter that ties ?concept to the context's user_id.
C14_UserFilterInserted ==
    (last.op = "enhanced" /\ ~IsNone(last.brain_context)) =>
        \E i \in 1..Len(last.enhanced_query) :
            At(last.enhanced_query, i, user_filter(Get(last.brain_context)))

\* C15: the method returns its input text when no context is supplied, and
\* also when the text has no occurrence of the delimiter 'WHERE {'.
C15_NoContextOrNoDelimiterIsNoOp ==
    last.op = "enhanced" =>
        /\ IsNone(last.brain_context) => last.enhanced_query = last.original_query
        /\ Count(last.original_query, WHERE_OPEN) = 0 =>
              last.enhanced_query = last.original_query

\* C15 witness: the method was given a context with the temporal flag set
\* and a query whose block opens with a lower-case 'where {', and returned
\* that query.
C15_Witness ==
    /\ last.op = "enhanced"
    /\ last.original_query = QLower
    /\ ~IsNone(last.brain_context)
    /\ Get(last.brain_context).temporal_reasoning
    /\ last.enhanced_query = QLower

\* The texts the temporal rewrite is about.
TemporalCase ==
    /\ last.op = "enhanced" /\ ~IsNone(last.brain_context)
    /\ Get(last.brain_context).temporal_reasoning
    /\ Count(last.original_query, WHERE_OPEN) >= 1

\* C16 as stated: with the temporal flag set and at least one delimiter the
\* OPTIONAL block is inserted once, right after the first delimiter, and
\* the rest of the text is as it was; without the flag no OPTIONAL block is
\* inserted.
C16_InsertedOnceAfterFirst ==
    /\ TemporalCase =>
          LET first == CHOOSE i \in 1..Len(last.original_query) :
                          /\ last.original_query[i] = WHERE_OPEN
                          /\ \A j \in 1..(i - 1) : last.original_query[j] # WHERE_OPEN
          IN  last.enhanced_query =
                 SubSeq(last.original_query, 1, first) \o temporal_filter
                 \o SubSeq(last.original_query, first + 1, Len(last.original_query))
    /\ (last.op = "enhanced" /\ ~IsNone(last.brain_context)
           /\ ~Get(last.brain_context).temporal_reasoning) =>
          Count(last.enhanced_query, OPTIONAL_OPEN)
              = Count(last.original_query, OPTIONAL_OPEN)

\* C16 amended: with the temporal flag set the OPTIONAL block is inserted
\* once after every delimiter of the text: each delimiter of the result is
\* directly followed by the block, the delimiters and the other tokens are
\* as many as before; without the flag no OPTIONAL block is inserted.
C16_InsertedAfterEveryDelimiter ==
    /\ TemporalCase =>
          LET n == Count(last.original_query, WHERE_OPEN)
          IN  /\ Count(last.enhanced_query, WHERE_OPEN) = n
              /\ Count(last.enhanced_query, OPTIONAL_OPEN)
                    = Count(last.original_query, OPTIONAL_OPEN) + n
              /\ Len(last.enhanced_query)
                    = Len(last.original_query) + n * Len(temporal_filter)
              /\ \A i \in 1..Len(last.enhanced_query) :
                    last.enhanced_query[i] = WHERE_OPEN =>
                        At(last.enhanced_query, i + 1, temporal_filter)
    /\ (last.op = "enhanced" /\ ~IsNone(last.brain_context)
           /\ ~Get(last.brain_context).temporal_reasoning) =>
          Count(last.enhanced_query, OPTIONAL_OPEN)
              = Count(last.original_query, OPTIONAL_OPEN)

\* C16 witness: the temporal rewrite has run on a text with two delimiters
\* and the result has two OPTIONAL blocks.
C16_Witness ==
    /\ TemporalCase
    /\ Count(last.original_query, WHERE_OPEN) = 2
    /\ Count(last.enhanced_query, OPTIONAL_OPEN) = 2

----------------------------------------------------------------------------
(* The baseline schema                                                      *)

\* C17: in every state of the service the base graph contains every triple
\* of the baseline schema that setup_ontology adds.
C17_BaselineAlwaysPresent == OntologyTriples \subseteq graph

\* C17 witness: after an evolution had added triples, a clearing import of
\* a document that does not parse has left the graph holding the baseline
\* schema and nothing else.
C17_Witness ==
    /\ last.op = "import" /\ last.req.clear_graph /\ ~last.resp.success
    /\ next_bnode > 0
    /\ graph = OntologyTriples

----------------------------------------------------------------------------
(* Several requests in flight.  Every route is an `async def` that awaits   *)
(* an `async def` method with no await inside (the Redis client is the      *)
(* blocking one), and uvicorn.run serves the app from one event loop: a     *)
(* task that has started runs to its return before another task runs.       *)
(* Here the handlers are taken apart into their statements.                 *)

Task(op, req) ==
    [ op |-> op, req |-> req, pc |-> "pending", k |-> 0, initial_size |-> 0,
      seen |-> {}, resp |-> None ]

ConcurrentImports ==
    { RDFImportRequest(d, v, TRUE) : d \in {DocSub, DocPartial}, v \in BOOLEAN }

ConcurrentEvolutions ==
    { ConceptEvolutionRequest("k1", "n1", items) :
        items \in { <<InfoNote>>, <<InfoNote, InfoNoPredicate>> } }

ConcurrentTasks ==
    { Task("import", r) : r \in ConcurrentImports }
    \cup { Task("evolve", r) : r \in ConcurrentEvolutions }
    \cup { Task("query", PlainConcept(2)) }

InitConcurrent ==
    /\ graph = setup_ontology({})
    /\ redis_client = FALSE
    /\ cache = EmptyCache
    /\ now = 0
    /\ next_bnode = 0
    /\ calls = 0
    /\ last = [op |-> "init"]
    /\ loop = << >>

\* A request arrives and its route coroutine is queued on the loop.
Accept ==
    /\ Len(loop) < MaxInFlight
    /\ \E t \in ConcurrentTasks : loop' = Append(loop, t)
    /\ calls' = calls + 1
    /\ UNCHANGED <<graph, redis_client, cache, now, next_bnode, last>>

Running(i) == loop[i].pc \notin {"pending", "done"}

\* (variant: the routes are plain `def`, which FastAPI runs on a thread pool,
\* so any task may take its next step at any time)
Scheduled_on_threads(i) == TRUE

\* The event loop runs task i only when no other task is between its start
\* and its return.
Scheduled(i) == \A j \in 1..Len(loop) : j # i => ~Running(j)

\* import_rdf_data, statement by statement.
ImportStep(i) ==
    /\ loop[i].op = "import" /\ loop[i].pc # "done" /\ Scheduled(i)
    /\ LET t == loop[i]
           req == t.req
           Failed == [t EXCEPT !.pc = "done", !.resp = Some(FailedImportResponse)]
       IN  CASE t.pc = "pending" ->
                  /\ graph' = graph
                  /\ loop' = [loop EXCEPT ![i] =
                        [t EXCEPT !.initial_size = Cardinality(graph),
                                  !.pc = IF req.clear_graph THEN "clear"
                                         ELSE "validate"]]
             [] t.pc = "clear" ->
                  /\ graph' = {}
                  /\ loop' = [loop EXCEPT ![i].pc = "seed"]
             [] t.pc = "seed" ->
                  /\ graph' = setup_ontology(graph)
                  /\ loop' = [loop EXCEPT ![i].pc = "validate"]
             [] t.pc = "validate" ->
                  /\ graph' = graph
                  /\ loop' = [loop EXCEPT ![i] =
                        IF req.validation /\ ~GraphParse({}, req.data).ok
                        THEN Failed
                        ELSE [t EXCEPT !.pc = "parse", !.k = 1]]
             [] t.pc = "parse" /\ t.k <= Len(req.data) ->
                  LET one == GraphParse(graph, <<req.data[t.k]>>)
                  IN  /\ graph' = one.graph
                      /\ loop' = [loop EXCEPT ![i] =
                            IF one.ok THEN [t EXCEPT !.k = t.k + 1] ELSE Failed]
             [] t.pc = "parse" /\ t.k > Len(req.data) ->
                  /\ graph' = graph
                  /\ loop' = [loop EXCEPT ![i] =
                        [t EXCEPT !.pc = "done", !.resp = Some(
                            [ success |-> TRUE,
                              triples_imported |-> Cardinality(graph) - t.initial_size,
                              total_triples |-> Some(Cardinality(graph)),
                              error |-> None ])]]
    /\ cache' = IF loop'[i].pc = "done" /\ Get(loop'[i].resp).success
                THEN ClearQueryCache(Self, [scan_fails |-> FALSE, deleted |-> {}])
                ELSE cache
    /\ UNCHANGED <<redis_client, now, next_bnode, calls, last>>

\* evolve_concept, statement by statement.
EvolveStep(i) ==
    /\ loop[i].op = "evolve" /\ loop[i].pc # "done" /\ Scheduled(i)
    /\ LET t == loop[i]
           req == t.req
           concept_uri == CONCEPT(req.concept_id)
           Response(ok) == [ success |-> ok, concept_id |-> req.concept_id,
                             error |-> IF ok THEN None ELSE Some("error") ]
       IN  CASE t.pc = "pending" ->
                  /\ UNCHANGED <<graph, next_bnode>>
                  /\ loop' = [loop EXCEPT ![i].pc = "add_type"]
             [] t.pc = "add_type" ->
                  /\ graph' = graph \cup {T(concept_uri, RDF_type, OMNII_Concept)}
                  /\ UNCHANGED next_bnode
                  /\ loop' = [loop EXCEPT ![i].pc = "add_label"]
             [] t.pc = "add_label" ->
                  /\ graph' = graph \cup
                        {T(concept_uri, RDFS_label, Literal(req.concept_name))}
                  /\ UNCHANGED next_bnode
                  /\ loop' = [loop EXCEPT ![i] = [t EXCEPT !.pc = "items", !.k = 1]]
             [] t.pc = "items" /\ t.k <= Len(req.new_information) ->
                  LET one == AddInformation(graph, next_bnode, concept_uri,
                                            <<req.new_information[t.k]>>)
                  IN  /\ graph' = one.graph
                      /\ next_bnode' = one.minted
                      /\ loop' = [loop EXCEPT ![i] =
                            IF one.ok THEN [t EXCEPT !.k = t.k + 1]
                            ELSE [t EXCEPT !.pc = "done",
                                           !.resp = Some(Response(FALSE))]]
             [] t.pc = "items" /\ t.k > Len(req.new_information) ->
                  /\ UNCHANGED <<graph, next_bnode>>
                  /\ loop' = [loop EXCEPT ![i] =
                        [t EXCEPT !.pc = "done", !.resp = Some(Response(TRUE))]]
    /\ UNCHANGED <<redis_client, cache, now, calls, last>>

\* execute_sparql_query: it reads the graph (the copy loop of the reasoner,
\* Graph.query) and writes nothing to it; `seen` is the graph it read.
QueryStep(i) ==
    /\ loop[i].op = "query" /\ loop[i].pc = "pending" /\ Scheduled(i)
    /\ \E out \in execute_sparql_query(Self, loop[i].req, NoFaults) :
          /\ graph' = out.graph
          /\ cache' = out.cache
          /\ loop' = [loop EXCEPT ![i] =
                [@ EXCEPT !.pc = "done", !.seen = graph,
                          !.resp = Some(out.response)]]
    /\ UNCHANGED <<redis_client, now, next_bnode, calls, last>>

NextConcurrent ==
    \/ Accept
    \/ \E i \in 1..Len(loop) : ImportStep(i)
    \/ \E i \in 1..Len(loop) : EvolveStep(i)
    \/ \E i \in 1..Len(loop) : QueryStep(i)

SpecConcurrent == InitConcurrent /\ [][NextConcurrent]_vars

\* The graphs that whole calls of import_rdf_data and evolve_concept, one
\* after the other, can leave behind: at most n calls from the start.
RECURSIVE WholeCallGraphs(_)
WholeCallGraphs(n) ==
    IF n = 0 THEN { setup_ontology({}) }
    ELSE LET before == WholeCallGraphs(n - 1)
         IN  before
             \cup { import_rdf_data([Self EXCEPT !.graph = g], r,
                                    [scan_fails |-> FALSE, deleted |-> {}]).graph :
                      g \in before, r \in ConcurrentImports }
             \cup { evolve_concept([Self EXCEPT !.graph = g], r).graph :
                      g \in before, r \in ConcurrentEvolutions }

\* C18: with several requests in flight, no two calls are ever both between
\* their start and their return (so import and evolve_concept calls are
\* serialized), and the graph a query evaluated is one that whole mutation
\* calls leave behind: the graph before or after each mutation, never the
\* emptied or half-seeded graph of a clearing import nor a partly added
\* evolve_concept batch.
C18_MutationsNeverSeenPartially ==
    /\ \A i, j \in 1..Len(loop) : (Running(i) /\ Running(j)) => i = j
    /\ \A i \in 1..Len(loop) :
          (loop[i].op = "query" /\ loop[i].pc = "done") =>
              loop[i].seen \in WholeCallGraphs(MaxInFlight)
    /\ (\A i \in 1..Len(loop) : ~Running(i)) =>
          graph \in WholeCallGraphs(MaxInFlight)

\* C18 witness: a clearing import has emptied the graph and not yet
\* re-seeded it, while a query that arrived is waiting for the loop and
\* another query has already been answered.
C18_Witness ==
    /\ graph = {}
    /\ \E i, j, q \in 1..Len(loop) :
          /\ loop[i].op = "import" /\ loop[i].pc = "seed"
          /\ loop[j].op = "query" /\ loop[j].pc = "pending"
          /\ loop[q].op = "query" /\ loop[q].pc = "done"

----------------------------------------------------------------------------
(* Queries that take time.  start_time is read on entry and the elapsed     *)
(* time goes into execution_time_ms; query_data.timeout is read nowhere.    *)

\* Seconds an evaluation can take: less than the default timeout of 10, or
\* more.
EvaluationSeconds == {1, 11}

execution_time_ms(elapsed) == elapsed * 1000

TimedQuery ==
    /\ calls < MaxCalls
    /\ \E query_data \in QueryRequests, elapsed \in EvaluationSeconds :
         /\ now + elapsed <= MaxTime
         /\ \E out \in execute_sparql_query(Self, query_data, NoFaults) :
               /\ graph' = out.graph
               /\ now' = now + (IF out.hit THEN 0 ELSE elapsed)
               /\ cache' = [ k \in { j \in DOMAIN out.cache :
                                        Live(out.cache[j], now') } |-> out.cache[k] ]
               /\ last' = [ op |-> "query", req |-> query_data,
                            resp |-> out.response, hit |-> out.hit,
                            key |-> CacheKey(QueryHashOf(query_data)),
                            raised |-> out.raised,
                            elapsed |-> IF out.hit THEN 0 ELSE elapsed,
                            execution_time_ms |->
                                IF out.hit THEN 0 ELSE execution_time_ms(elapsed) ]
    /\ calls' = calls + 1
    /\ UNCHANGED <<redis_client, next_bnode, loop>>

NextTimeout == TimedQuery \/ Import

SpecTimeout == Init /\ [][NextTimeout]_vars

\* C19: a query whose evaluation took longer than the request's timeout is
\* answered with a failure and no rows.
C19_TimeoutAborts ==
    (last.op = "query" /\ ~last.hit /\ last.elapsed > last.req.timeout) =>
        ~last.resp.success /\ last.resp.results = {}

----------------------------------------------------------------------------
(* reasoning_applied                                                        *)

\* C20: every successful query response, served from the cache or freshly
\* evaluated, has reasoning_applied equal to the reasoning flag of the
\* request it answers.
C20_ReasoningAppliedIsRequested ==
    (last.op = "query" /\ last.resp.success) =>
        last.resp.reasoning_applied = last.req.reasoning

----------------------------------------------------------------------------
(* Row shaping: execute_sparql_query on a range of graphs                   *)

RowTriples ==
    { T("ex:c1", RDF_type, OMNII_Concept),
      T("ex:c1", "ex:note", "\"note\""),
      T("ex:c2", RDF_type, OMNII_Concept),
      T("ex:c2", "ex:note", "\"\""),
      T("ex:c3", RDF_type, OMNII_Concept),
      T("ex:c3", "ex:note", "\"0\"^^xsd:integer"),
      T("ex:c3", "ex:note", "ex:c1"),
      T("_:b1", RDF_type, OMNII_Concept),
      T("ex:c1", "ex:note", "_:b1") }

RowRequests ==
    { QueryRequest(QOptional, "SELECT", FALSE, 100, c, None) : c \in {NoContext, CtxA} }
    \cup { QueryRequest(QOptional, "SELECT", FALSE, 1, CtxA, None) }

InitRows ==
    /\ \E extra \in SUBSET RowTriples : graph = setup_ontology({}) \cup extra
    /\ redis_client = FALSE
    /\ cache = EmptyCache
    /\ now = 0
    /\ next_bnode = 0
    /\ calls = 0
    /\ loop = << >>
    /\ last = [op |-> "init"]

QueryRows ==
    /\ last.op = "init"
    /\ \E query_data \in RowRequests :
         \E out \in execute_sparql_query(Self, query_data, NoFaults) :
           /\ graph' = out.graph
           /\ cache' = out.cache
           /\ last' = [ op |-> "query", req |-> query_data,
                        resp |-> out.response, hit |-> out.hit,
                        key |-> CacheKey(QueryHashOf(query_data)),
                        raised |-> out.raised ]
    /\ calls' = calls + 1
    /\ UNCHANGED <<redis_client, now, next_bnode, loop>>

NextRows == QueryRows

SpecRows == InitRows /\ [][NextRows]_vars

\* The solutions Graph.query gives for the last request on the graph.
Solutions ==
    GraphQuery(graph, prepareQuery(enhance_query_with_brain_context(
                          last.req.query, last.req.brain_context)))

\* C21 (for queries whose limit cuts nothing off): every solution of a
\* SELECT query gives exactly one result row, and
\* the row's entries are exactly the projected variables the solution
\* binds, whatever the bound term is; a variable an unmatched OPTIONAL left
\* unbound has no entry, and its solution is still among the results.
C21_RowHasEveryBoundVariable ==
    (last.op = "query" /\ last.resp.success /\ ~last.hit
        /\ Cardinality(Solutions) <= last.req.limit) =>
        LET PV == prepareQuery(enhance_query_with_brain_context(
                      last.req.query, last.req.brain_context)).PV
            shown == { PV[i] : i \in 1..Len(PV) }
        IN  /\ Cardinality(last.resp.results) = Cardinality(Solutions)
            /\ \A sol \in Solutions :
                  \E r \in last.resp.results :
                      r.sol = sol /\ DOMAIN r.row = DOMAIN sol \cap shown

----------------------------------------------------------------------------
(* Read-only routes                                                         *)

\* C22: a call of health, ontology, metrics or analyze_brain_memory leaves
\* the base graph and every cache entry as they were.
C22_IntrospectionIsReadOnly ==
    [][ (\E op \in {"health", "ontology", "metrics", "analyze"} : Called(op))
            => (graph' = graph /\ cache' = cache) ]_vars

\* C22 witness: metrics has been called on a connected service that holds a
\* cache entry and a graph larger than the baseline, and reported both.
C22_Witness ==
    /\ last.op = "metrics"
    /\ DOMAIN cache # {}
    /\ graph # OntologyTriples
    /\ last.resp.cache_stats.key_count = Cardinality(DOMAIN cache)
    /\ last.resp.graph_size = Cardinality(graph)

----------------------------------------------------------------------------
(* Imports                                                                  *)

\* The triples a document states.
Stated(doc) == { doc[i] : i \in 1..Len(doc) }

\* C23: after a successful import the base graph is the previous graph
\* united with the triples of the document when clear_graph is not set, and
\* the baseline schema united with the triples of the document, and
\* nothing else, when it is set.
C23_ImportPostState ==
    [][ (Called("import") /\ last'.resp.success) =>
            graph' = (IF last'.req.clear_graph THEN OntologyTriples ELSE graph)
                     \cup Stated(last'.req.data) ]_vars

\* C23 witness: a successful clearing import has run on a graph that held
\* triples of an earlier evolution, and none of them is left.
C23_Witness ==
    /\ last.op = "import" /\ last.resp.success /\ last.req.clear_graph
    /\ next_bnode > 0
    /\ graph = OntologyTriples \cup Stated(last.req.data)
    /\ graph # OntologyTriples

\* C24: on every successful import triples_imported is not negative and is
\* the number of triples the import added to the store it was applied to
\* (the store after any clear and re-seed), and total_triples is the size
\* of the store when the call returns.
C24_TriplesImportedCountsAdded ==
    [][ (Called("import") /\ last'.resp.success) =>
            LET applied_to == IF last'.req.clear_graph THEN OntologyTriples
                              ELSE graph
            IN  /\ last'.resp.triples_imported >= 0
                /\ last'.resp.triples_imported = Cardinality(graph' \ applied_to)
                /\ last'.resp.total_triples = Some(Cardinality(graph')) ]_vars

\* C25: when a successful import is directly followed by an import of the
\* same data without clear_graph, the second import leaves the base graph
\* as the first left it and reports triples_imported = 0.
C25_RepeatedImportAddsNothing ==
    [][ ( /\ last.op = "import" /\ last.resp.success
          /\ Called("import") /\ last'.resp.success
          /\ last'.req.data = last.req.data
          /\ ~last'.req.clear_graph )
        => (graph' = graph /\ last'.resp.triples_imported = 0) ]_vars

\* C25 witness: two calls have been made, both imports of the same
\* document, the second without clear_graph, and the second reported 0.
C25_Witness ==
    /\ calls = 2
    /\ last.op = "import" /\ last.resp.success /\ ~last.req.clear_graph
    /\ last.resp.triples_imported = 0
    /\ Stated(last.req.data) \subseteq graph

----------------------------------------------------------------------------
(* What the cache holds                                                     *)

C26_EntriesAreSuccesses == \A k \in DOMAIN cache : cache[k].value.success

C26_FailedQueryKeepsCache ==
    (Called("query") /\ ~last'.resp.success) => cache' = cache

\* C26: every cache entry holds a response with success = TRUE, and a query
\* that ends in failure stores nothing and leaves every entry as it was.
C26_CacheHoldsNoFailure ==
    []C26_EntriesAreSuccesses /\ [][C26_FailedQueryKeepsCache]_vars

\* C26 witness: a query has failed on a connected service whose cache holds
\* an entry, with no Redis error involved.
C26_Witness ==
    /\ last.op = "query" /\ ~last.resp.success /\ last.raised = {}
    /\ redis_client
    /\ DOMAIN cache # {}

----------------------------------------------------------------------------
(* Insights and the limit                                                   *)

\* C27: in a successful response to a query with a context, the insights
\* are those of the returned rows: one per returned row that binds
\* 'concept', counted by concepts_analyzed, and never more than
\* total_results.
C27_InsightsOnlyForReturnedRows ==
    (last.op = "query" /\ last.resp.success /\ ~last.hit
        /\ ~IsNone(last.req.brain_context)) =>
        LET returned == { r \in last.resp.results : "concept" \in DOMAIN r.row }
            insights == Get(last.resp.concept_insights)
        IN  /\ \A i \in insights : \E r \in returned : r.sol = i.sol
            /\ Cardinality(insights) = Cardinality(returned)
            /\ Get(last.resp.brain_memory_integration).concepts_analyzed
                  = Cardinality(returned)
            /\ Cardinality(insights) <= last.resp.total_results

----------------------------------------------------------------------------
(* Failed evolutions                                                        *)

\* C28: a call of evolve_concept that returns success = FALSE leaves the
\* base graph exactly as it was before the call.
C28_FailedEvolveKeepsGraph ==
    [][ (Called("evolve") /\ ~last'.resp.success) => graph' = graph ]_vars

====
